---- MODULE Spec2Model ----
(***************************************************************************)
(* Model of youtubeclipper/clipper.py: the range parser, the classifier of *)
(* available heights, and the clip_url pipeline (temporary workspace, one  *)
(* download, one ffmpeg extraction per range).                             *)
(*                                                                         *)
(* Three specifications share the module:                                  *)
(*   Spec        one run of clip_url against a nondeterministic metadata   *)
(*               query, download and encode engine;                        *)
(*   SpecParse   parse_clip_ranges applied to every text of bounded length;*)
(*   SpecHeights _available_heights applied to every bounded format list.  *)
(***************************************************************************)
EXTENDS Integers, Sequences, FiniteSets, TLC

VARIABLES
    \* ---- arguments of clip_url and the environment it runs in
    ranges,          \* list[tuple[int, int]]
    reencode,        \* bool
    output_format,   \* str
    quality_height,  \* int
    depsOk,          \* shutil.which finds both ffmpeg and yt-dlp
    \* ---- locals of clip_url and the file system
    pc,              \* position in clip_url
    error,           \* kind of the ClipperError raised, "" while none
    workspace,       \* the TemporaryDirectory exists on disk
    workFiles,       \* names matching source.* inside the workspace
    run_stamp,       \* datetime.now() captured at line 210, 0 before
    formats,         \* data["formats"] of the metadata document
    h264_mp4,        \* first list returned by _available_heights
    all_heights,     \* second list returned by _available_heights
    source,          \* candidates[0], <<>> while unset
    idx,             \* 1-based position of the for loop over ranges
    outputs,         \* list of output paths
    returned,        \* clip_url has returned normally
    result,          \* the returned list
    files,           \* output directory: path -> content
    \* ---- history of the run
    downloadCalls,   \* invocations of the yt-dlp download
    ffmpegLog,       \* range indices for which _run_ffmpeg was called
    engineCalls,     \* invocations of the ffmpeg subprocess
    failedIdx,       \* index of the range whose extraction raised, 0 if none
    clockReads,      \* reads of datetime.now()
    \* ---- parse_clip_ranges
    text,            \* the argument, a sequence of characters
    parsed           \* its outcome, [kind |-> "pending"] before the call

clipVars == <<ranges, reencode, output_format, quality_height, depsOk, pc,
              error, workspace, workFiles, run_stamp, source, idx, outputs,
              returned, result, files, downloadCalls, ffmpegLog, engineCalls,
              failedIdx, clockReads>>
heightVars == <<formats, h264_mp4, all_heights>>
parseVars == <<text, parsed>>
vars == <<clipVars, heightVars, parseVars>>

(***************************************************************************)
(* Bounds                                                                  *)
(***************************************************************************)
MaxRanges == 3
MaxTextLen == 8
MaxNoisyLen == 4
MaxFormats == 3

\* ---------------------------------------------------------------- helpers
RECURSIVE SeqsUpTo(_, _)
SeqsUpTo(S, n) ==
    IF n = 0 THEN {<<>>}
    ELSE LET shorter == SeqsUpTo(S, n - 1)
         IN  shorter \cup {Append(s, x) : s \in {t \in shorter : Len(t) = n - 1}, x \in S}

HasKey(d, k) == k \in DOMAIN d

StartsWith(s, p) == Len(s) >= Len(p) /\ SubSeq(s, 1, Len(p)) = p

Min(S) == CHOOSE m \in S : \A x \in S : m <= x

\* sorted(set_of_ints): the ascending list of the set's members
RECURSIVE SortedSeq(_)
SortedSeq(S) ==
    IF S = {} THEN <<>>
    ELSE LET m == Min(S) IN <<m>> \o SortedSeq(S \ {m})

Range(s) == {s[i] : i \in DOMAIN s}

(***************************************************************************)
(* _available_heights                                                      *)
(*                                                                         *)
(* A format is a JSON object, modelled as a record that may lack any of    *)
(* the keys height, vcodec and ext (dict.get then yields None).  A codec   *)
(* identifier is a sequence of characters, so that startswith is computed. *)
(***************************************************************************)
Avc1 == <<"a", "v", "c", "1">>
CodecNone == <<"n", "o", "n", "e">>
CodecH264 == <<"a", "v", "c", "1", ".", "4", "d">>
CodecVp9 == <<"v", "p", "0", "9">>
CodecAv1 == <<"a", "v", "0", "1">>

\* line 124: not height  (None or 0)
HeightFalsy(fmt) == ~HasKey(fmt, "height") \/ fmt.height = 0

\* line 124: vcodec in (None, "none")
VcodecMissing(fmt) == ~HasKey(fmt, "vcodec") \/ fmt.vcodec = CodecNone

\* line 127: fmt.get("ext") != "mp4"
ExtNotMp4(fmt) == ~HasKey(fmt, "ext") \/ fmt.ext # "mp4"

\* variant: the container is not looked at
HeightsStepAnyContainer(acc, fmt) ==
    IF HeightFalsy(fmt) \/ VcodecMissing(fmt) THEN acc
    ELSE LET all == acc[2] \cup {fmt.height}
         IN  IF StartsWith(fmt.vcodec, Avc1)
             THEN <<acc[1] \cup {fmt.height}, all>>
             ELSE <<acc[1], all>>

\* one iteration of the for loop, lines 121-130, on the pair of sets
\* acc = <<h264_mp4, all_video>>
HeightsStep(acc, fmt) ==
    IF HeightFalsy(fmt) \/ VcodecMissing(fmt) THEN acc
    ELSE LET all == acc[2] \cup {fmt.height}
         IN  IF ExtNotMp4(fmt) THEN <<acc[1], all>>
             ELSE IF StartsWith(fmt.vcodec, Avc1)
                  THEN <<acc[1] \cup {fmt.height}, all>>
                  ELSE <<acc[1], all>>

RECURSIVE HeightsLoop(_, _, _)
HeightsLoop(acc, fs, i) ==
    IF i > Len(fs) THEN acc ELSE HeightsLoop(HeightsStep(acc, fs[i]), fs, i + 1)

\* the pair of sorted lists returned at line 131
AvailableHeights(fs) ==
    LET acc == HeightsLoop(<<{}, {}>>, fs, 1)
    IN  <<SortedSeq(acc[1]), SortedSeq(acc[2])>>

(***************************************************************************)
(* clip_url: values                                                        *)
(***************************************************************************)
\* what datetime.now() may yield at line 210
Stamps == {1, 2}

\* ClipRange values passed to clip_url
RangeValues == {<<0, 1>>, <<0, 2>>, <<1, 2>>}

HeightValues == {0, 720, 1080}

FormatValues == {"mp4", "mkv"}

\* documents the metadata query may return (their "formats" list)
InvMixed ==
    << [height |-> 480, vcodec |-> CodecVp9, ext |-> "webm"],
       [height |-> 720, vcodec |-> CodecH264, ext |-> "mp4"],
       [height |-> 1080, vcodec |-> CodecVp9, ext |-> "webm"] >>
InvH264 ==
    << [height |-> 1080, vcodec |-> CodecH264, ext |-> "mp4"],
       [height |-> 720, vcodec |-> CodecH264, ext |-> "mp4"] >>
Inventories == {<<>>, InvMixed, InvH264}

\* names the download may leave in the workspace: the components that follow
\* "source", e.g. <<"f137", "mp4">> is source.f137.mp4
SourceNames == {<<"mkv">>, <<"mp4">>, <<"f137", "mp4">>}

\* order of the components as strings
CompRank(c) ==
    CASE c = "f137" -> 1
      [] c = "mkv" -> 2
      [] c = "mp4" -> 3
      [] OTHER -> 4

\* a < b for the file names source.a and source.b compared as strings
RECURSIVE NameLess(_, _)
NameLess(a, b) ==
    IF a = <<>> THEN b # <<>>
    ELSE IF b = <<>> THEN FALSE
    ELSE IF CompRank(Head(a)) # CompRank(Head(b))
         THEN CompRank(Head(a)) < CompRank(Head(b))
         ELSE NameLess(Tail(a), Tail(b))

\* lines 87-90: sorted(workdir.glob("source.*"))[0]
FirstCandidate(names) ==
    CHOOSE n \in names : \A m \in names : m = n \/ NameLess(n, m)

\* line 232: source.suffix.lstrip(".")
Suffix(name) == name[Len(name)]

\* variant: the two lists are taken the wrong way round
AvailableSwapped(re, h264, all) == IF re THEN h264 ELSE all

\* line 212: the list the requested height is looked up in
Available(re, h264, all) == IF re THEN all ELSE h264

\* variant: the container check is made in re-encode mode too
SourceMismatchAnyMode(re, src, fmt) == Suffix(src) # fmt

\* line 232: the fast path requires the container to match
SourceMismatch(re, src, fmt) == ~re /\ Suffix(src) # fmt

\* variant: start and end are written the wrong way round
OutputPathSwapped(start, end, stamp, fmt) ==
    [start |-> end, end |-> start, stamp |-> stamp, ext |-> fmt]

\* line 238: outdir / f"clip_{start}_{end}_{run_stamp}.{output_format}".
\* The four fields are recoverable from the name (the integers hold no "_",
\* the stamp has a fixed shape), so the path is the record of the four.
OutputPath(start, end, stamp, fmt) ==
    [start |-> start, end |-> end, stamp |-> stamp, ext |-> fmt]

\* content of an output file: who wrote it and whether the write completed
OldContent == <<0, "old">>
Complete(i) == <<i, "complete">>
Partial(i) == <<i, "partial">>

\* the file system map fs with path p holding content c
WithFile(fs, p, c) ==
    [q \in DOMAIN fs \cup {p} |-> IF q = p THEN c ELSE fs[q]]

NoFiles == [q \in {} |-> OldContent]

\* variant: an existing output is skipped silently instead of raising
RunFfmpegSkip(fs, path, i, engine) ==
    IF path \in DOMAIN fs
    THEN [raised |-> "", files |-> fs, invoked |-> FALSE]
    ELSE CASE engine = "ok" ->
                [raised |-> "", files |-> WithFile(fs, path, Complete(i)),
                 invoked |-> TRUE]
           [] engine = "fail" ->
                [raised |-> "ExtractionFailed", files |-> fs, invoked |-> TRUE]
           [] OTHER ->
                [raised |-> "ExtractionFailed",
                 files |-> WithFile(fs, path, Partial(i)), invoked |-> TRUE]

\* variant: no existence check, and the engine is run with overwrite allowed
RunFfmpegOverwrite(fs, path, i, engine) ==
    CASE engine = "ok" ->
           [raised |-> "", files |-> WithFile(fs, path, Complete(i)),
            invoked |-> TRUE]
      [] engine = "fail" ->
           [raised |-> "ExtractionFailed", files |-> fs, invoked |-> TRUE]
      [] OTHER ->
           [raised |-> "ExtractionFailed",
            files |-> WithFile(fs, path, Partial(i)), invoked |-> TRUE]

(***************************************************************************)
(* _run_ffmpeg(source, start, end, output_path, reencode), lines 145-190,  *)
(* called for the range at index i.  engine is what the ffmpeg subprocess  *)
(* does if it is started: "ok" (exit 0, output written), "fail" (non-zero  *)
(* exit, nothing left) or "fail_partial" (non-zero exit, partial output).  *)
(* Yields the exception raised ("" if none), the file system afterwards    *)
(* and whether the subprocess was started.                                 *)
(***************************************************************************)
RunFfmpeg(fs, path, i, engine) ==
    IF path \in DOMAIN fs
    THEN [raised |-> "OutputAlreadyExists", files |-> fs, invoked |-> FALSE]
    ELSE CASE engine = "ok" ->
                [raised |-> "", files |-> WithFile(fs, path, Complete(i)),
                 invoked |-> TRUE]
           [] engine = "fail" ->
                [raised |-> "ExtractionFailed", files |-> fs, invoked |-> TRUE]
           [] OTHER ->
                [raised |-> "ExtractionFailed",
                 files |-> WithFile(fs, path, Partial(i)), invoked |-> TRUE]

EngineOutcomes == {"ok", "fail", "fail_partial"}

(***************************************************************************)
(* clip_url: the run                                                       *)
(***************************************************************************)
jobArgs == <<ranges, reencode, output_format, quality_height, depsOk>>

InitialFiles ==
    {NoFiles} \cup
    {WithFile(NoFiles, OutputPath(r[1], r[2], 1, f), OldContent) :
        r \in RangeValues, f \in FormatValues}

\* every variable of the run at its value before clip_url is entered
ClipEntry ==
    /\ pc = "start"
    /\ error = ""
    /\ workspace = FALSE
    /\ workFiles = {}
    /\ run_stamp = 0
    /\ source = <<>>
    /\ idx = 0
    /\ outputs = <<>>
    /\ returned = FALSE
    /\ result = <<>>
    /\ downloadCalls = 0
    /\ ffmpegLog = <<>>
    /\ engineCalls = 0
    /\ failedIdx = 0
    /\ clockReads = 0

HeightsEntry ==
    /\ formats = <<>>
    /\ h264_mp4 = <<>>
    /\ all_heights = <<>>

ParseEntry ==
    /\ text = <<>>
    /\ parsed = [kind |-> "pending"]

Init ==
    /\ ranges \in SeqsUpTo(RangeValues, MaxRanges)
    /\ reencode \in BOOLEAN
    /\ output_format \in FormatValues
    /\ quality_height \in HeightValues
    /\ depsOk \in BOOLEAN
    /\ files \in InitialFiles
    /\ ClipEntry
    /\ HeightsEntry
    /\ ParseEntry

\* raise ClipperError(kind)
Raise(kind) ==
    /\ pc' = "failed"
    /\ error' = kind

\* variant: the directory is made with mkdtemp and never removed
ExitWithLeak == UNCHANGED <<workspace, workFiles>>

\* line 208: leaving the with block, by return or by exception, removes the
\* TemporaryDirectory and everything in it
ExitWith ==
    /\ workspace' = FALSE
    /\ workFiles' = {}

\* lines 201-210: dependency and height checks, mkdir, entering the with
\* block, reading the clock
Begin ==
    /\ pc = "start"
    /\ IF ~depsOk
       THEN Raise("MissingDependency") /\ UNCHANGED <<workspace, run_stamp, clockReads>>
       ELSE IF quality_height <= 0
       THEN Raise("InvalidQuality") /\ UNCHANGED <<workspace, run_stamp, clockReads>>
       ELSE /\ workspace' = TRUE
            /\ \E t \in Stamps : run_stamp' = t
            /\ clockReads' = clockReads + 1
            /\ pc' = "resolve"
            /\ error' = error
    /\ UNCHANGED <<jobArgs, workFiles, source, idx, outputs, returned, result,
                   files, downloadCalls, ffmpegLog, engineCalls, failedIdx>>
    /\ UNCHANGED <<heightVars, parseVars>>

\* lines 211-230: the metadata query (_inspect_formats may fail to run or to
\* parse), the classification, the availability check, the format selector
Resolve ==
    /\ pc = "resolve"
    /\ \/ /\ \E kind \in {"MetadataFetchFailed", "MetadataParseFailed"} : Raise(kind)
          /\ ExitWith
          /\ UNCHANGED heightVars
       \/ \E inv \in Inventories :
            LET hs == AvailableHeights(inv)
                available == Available(reencode, hs[1], hs[2])
            IN  /\ formats' = inv
                /\ h264_mp4' = hs[1]
                /\ all_heights' = hs[2]
                /\ IF quality_height \notin Range(available)
                   THEN /\ Raise(IF reencode THEN "QualityUnavailable"
                                             ELSE "QualityUnavailableFastPath")
                        /\ ExitWith
                   ELSE /\ pc' = "download"
                        /\ UNCHANGED <<error, workspace, workFiles>>
    /\ UNCHANGED <<jobArgs, run_stamp, source, idx, outputs, returned, result,
                   files, downloadCalls, ffmpegLog, engineCalls, failedIdx,
                   clockReads>>
    /\ UNCHANGED parseVars

\* variant: a failed yt-dlp run is tried once more
DownloadRetried ==
    /\ pc = "download"
    /\ downloadCalls' = downloadCalls + 1
    /\ \/ /\ IF downloadCalls = 0
             THEN UNCHANGED <<pc, error, workspace, workFiles>>
             ELSE Raise("DownloadFailed") /\ ExitWith
          /\ UNCHANGED <<source, idx>>
       \/ \E written \in SUBSET SourceNames :
            IF written = {}
            THEN /\ Raise("NoSourceFileProduced")
                 /\ ExitWith
                 /\ UNCHANGED <<source, idx>>
            ELSE LET src == FirstCandidate(written)
                 IN  /\ source' = src
                     /\ IF SourceMismatch(reencode, src, output_format)
                        THEN /\ Raise("OutputFormatMismatch")
                             /\ ExitWith
                             /\ UNCHANGED idx
                        ELSE /\ pc' = "extract"
                             /\ idx' = 1
                             /\ workFiles' = written
                             /\ UNCHANGED <<error, workspace>>
    /\ UNCHANGED <<jobArgs, run_stamp, outputs, returned, result, files,
                   ffmpegLog, engineCalls, failedIdx, clockReads>>
    /\ UNCHANGED <<heightVars, parseVars>>

\* lines 231-236: _download_source (one yt-dlp run, then the glob) and the
\* fast path's container check
Download ==
    /\ pc = "download"
    /\ downloadCalls' = downloadCalls + 1
    /\ \/ /\ Raise("DownloadFailed")
          /\ ExitWith
          /\ UNCHANGED <<source, idx>>
       \/ \E written \in SUBSET SourceNames :
            IF written = {}
            THEN /\ Raise("NoSourceFileProduced")
                 /\ ExitWith
                 /\ UNCHANGED <<source, idx>>
            ELSE LET src == FirstCandidate(written)
                 IN  /\ source' = src
                     /\ IF SourceMismatch(reencode, src, output_format)
                        THEN /\ Raise("OutputFormatMismatch")
                             /\ ExitWith
                             /\ UNCHANGED idx
                        ELSE /\ pc' = "extract"
                             /\ idx' = 1
                             /\ workFiles' = written
                             /\ UNCHANGED <<error, workspace>>
    /\ UNCHANGED <<jobArgs, run_stamp, outputs, returned, result, files,
                   ffmpegLog, engineCalls, failedIdx, clockReads>>
    /\ UNCHANGED <<heightVars, parseVars>>

\* variant: the loop catches the exception and goes on with the next range
ExtractRaiseContinue(kind) ==
    /\ error' = kind
    /\ failedIdx' = idx
    /\ idx' = idx + 1
    /\ UNCHANGED <<pc, workspace, workFiles, outputs>>

\* lines 237-240: an exception of _run_ffmpeg is not handled in the loop: it
\* leaves the loop, the with block and clip_url
ExtractRaise(kind) ==
    /\ Raise(kind)
    /\ ExitWith
    /\ failedIdx' = idx
    /\ UNCHANGED <<outputs, idx>>

\* lines 237-240: one iteration of the loop over ranges
Extract ==
    /\ pc = "extract"
    /\ idx <= Len(ranges)
    /\ \E engine \in EngineOutcomes :
         LET r == ranges[idx]
             path == OutputPath(r[1], r[2], run_stamp, output_format)
             res == RunFfmpeg(files, path, idx, engine)
         IN  /\ ffmpegLog' = Append(ffmpegLog, idx)
             /\ engineCalls' = IF res.invoked THEN engineCalls + 1 ELSE engineCalls
             /\ files' = res.files
             /\ IF res.raised # ""
                THEN ExtractRaise(res.raised)
                ELSE /\ outputs' = Append(outputs, path)
                     /\ idx' = idx + 1
                     /\ UNCHANGED <<pc, error, workspace, workFiles, failedIdx>>
    /\ UNCHANGED <<jobArgs, run_stamp, source, returned, result, downloadCalls,
                   clockReads>>
    /\ UNCHANGED <<heightVars, parseVars>>

\* lines 241-242: the loop is over, the with block is left, outputs returned
Return ==
    /\ pc = "extract"
    /\ idx > Len(ranges)
    /\ ExitWith
    /\ pc' = "done"
    /\ returned' = TRUE
    /\ result' = outputs
    /\ UNCHANGED <<jobArgs, error, run_stamp, source, idx, outputs, files,
                   downloadCalls, ffmpegLog, engineCalls, failedIdx, clockReads>>
    /\ UNCHANGED <<heightVars, parseVars>>

Next == Begin \/ Resolve \/ Download \/ Extract \/ Return

Spec == Init /\ [][Next]_vars

(***************************************************************************)
(* Properties of clip_url                                                  *)
(***************************************************************************)
ExtractionErrors == {"OutputAlreadyExists", "ExtractionFailed"}

\* the output path of the range at index k of this run
PathOf(k) ==
    [start |-> ranges[k][1], end |-> ranges[k][2], stamp |-> run_stamp,
     ext |-> output_format]

\* the metadata query has answered with a document
Inspected ==
    /\ pc \notin {"start", "resolve"}
    /\ error \notin {"MissingDependency", "InvalidQuality",
                     "MetadataFetchFailed", "MetadataParseFailed"}

\* C1: once clip_url has returned (done) or raised (failed), whatever the
\* step that failed, the temporary workspace directory no longer exists.
C1_WorkspaceReleased ==
    pc \in {"done", "failed"} => (~workspace /\ workFiles = {})

\* a run that created the workspace, downloaded, and failed in an extraction
C1_Witness ==
    /\ pc = "failed"
    /\ error = "ExtractionFailed"
    /\ downloadCalls = 1
    /\ ~workspace

\* C2: the download is invoked at most once per run, whatever the number of
\* ranges and also after a failure, and _run_ffmpeg is called for no range
\* before that one download has succeeded and a source file was selected.
C2_SingleDownloadFirst ==
    /\ downloadCalls <= 1
    /\ pc = "download" => downloadCalls = 0
    /\ error \in {"DownloadFailed", "NoSourceFileProduced"} =>
           (pc = "failed" /\ downloadCalls = 1 /\ ffmpegLog = <<>>)
    /\ (ffmpegLog # <<>> \/ engineCalls > 0) =>
           (downloadCalls = 1 /\ source \in SourceNames /\
            error \notin {"DownloadFailed", "NoSourceFileProduced"})

\* two ranges extracted from the one download
C2_Witness ==
    /\ Len(ffmpegLog) = 2
    /\ engineCalls = 2
    /\ downloadCalls = 1

\* C3: when the extraction of the range at index i fails, no later range is
\* attempted, the run ends as a failure with an extraction error and returns
\* no list, and the artifacts of the ranges before i are still on disk.
C3_AbortOnRangeFailure ==
    /\ error \in ExtractionErrors <=> failedIdx > 0
    /\ failedIdx > 0 =>
         /\ pc = "failed"
         /\ ffmpegLog = [k \in 1..failedIdx |-> k]
         /\ ~returned
         /\ result = <<>>
         /\ \A k \in 1..(failedIdx - 1) :
               /\ PathOf(k) \in DOMAIN files
               /\ files[PathOf(k)] = Complete(k)

\* the second of three ranges failed in the engine, the first one's artifact
\* is on disk
C3_Witness ==
    /\ Len(ranges) = 3
    /\ failedIdx = 2
    /\ error = "ExtractionFailed"
    /\ PathOf(1) \in DOMAIN files

\* C4: a call of _run_ffmpeg whose output path already holds a file raises
\* OutputAlreadyExists, does not start the engine, and leaves the output
\* directory, that file included, as it was.
C4_NeverOverwrites ==
    [][(pc = "extract" /\ idx <= Len(ranges) /\ PathOf(idx) \in DOMAIN files) =>
           /\ pc' = "failed"
           /\ error' = "OutputAlreadyExists"
           /\ ffmpegLog' = Append(ffmpegLog, idx)
           /\ engineCalls' = engineCalls
           /\ files' = files]_vars

\* the second call with the same output path failed, the first call's
\* artifact is intact
C4_Witness ==
    /\ error = "OutputAlreadyExists"
    /\ failedIdx = 2
    /\ ranges[1] = ranges[2]
    /\ files[PathOf(2)] = Complete(1)
    /\ engineCalls = 1

\* C5: the requested height is looked up in anyCodecHeights when reencode
\* and in fastPathHeights otherwise; if absent the run fails before any
\* download, with QualityUnavailable resp. QualityUnavailableFastPath; if
\* present the run goes on to the download.  With heights {480,720,1080} of
\* which only 720 is H.264/mp4, 1080 fails without reencode, passes with it.
C5_AvailabilityCheck ==
    /\ Inspected =>
         LET comparison == Range(IF reencode THEN all_heights ELSE h264_mp4)
         IN  IF quality_height \notin comparison
             THEN /\ pc = "failed"
                  /\ error = (IF reencode THEN "QualityUnavailable"
                                          ELSE "QualityUnavailableFastPath")
                  /\ downloadCalls = 0
             ELSE /\ error \notin {"QualityUnavailable", "QualityUnavailableFastPath"}
                  /\ pc = "download" \/ downloadCalls = 1
    /\ error \in {"QualityUnavailable", "QualityUnavailableFastPath"} => Inspected
    /\ (Inspected /\ formats = InvMixed /\ quality_height = 1080) =>
         IF reencode THEN pc # "failed" \/ downloadCalls = 1
                     ELSE error = "QualityUnavailableFastPath"

\* 1080 asked on the fast path where only 720 is H.264/mp4
C5_Witness ==
    /\ formats = InvMixed
    /\ quality_height = 1080
    /\ ~reencode
    /\ error = "QualityUnavailableFastPath"
    /\ all_heights = <<480, 720, 1080>>

\* C8: on the fast path a selected source whose extension differs from the
\* output format fails the run with OutputFormatMismatch after the download
\* and before any extraction, so that no artifact is written; with reencode
\* the extensions are not compared and the run goes on to the extractions.
C8_FormatMismatch ==
    /\ source # <<>> =>
         /\ downloadCalls = 1
         /\ IF ~reencode /\ Suffix(source) # output_format
            THEN /\ pc = "failed"
                 /\ error = "OutputFormatMismatch"
                 /\ ffmpegLog = <<>>
                 /\ engineCalls = 0
                 /\ \A p \in DOMAIN files : files[p] = OldContent
            ELSE /\ error # "OutputFormatMismatch"
                 /\ pc \in {"extract", "done", "failed"}
                 /\ pc = "failed" => failedIdx > 0
    /\ error = "OutputFormatMismatch" => source # <<>>

\* a fast-path run stopped by the mismatch, after its download
C8_Witness ==
    /\ pc = "failed"
    /\ error = "OutputFormatMismatch"
    /\ ~reencode
    /\ downloadCalls = 1
    /\ Suffix(source) # output_format

\* C9: when clip_url returns, the list has one path per range, in the order
\* of the ranges, the path at index i being clip_<start_i>_<end_i>_<stamp>.
\* <output_format> with the one stamp read from the clock once in the run.
C9_ReturnedPaths ==
    pc = "done" =>
        /\ returned
        /\ clockReads = 1
        /\ run_stamp \in Stamps
        /\ Len(result) = Len(ranges)
        /\ \A i \in 1..Len(ranges) :
              result[i] = [start |-> ranges[i][1], end |-> ranges[i][2],
                           stamp |-> run_stamp, ext |-> output_format]

\* a run that returned the paths of three ranges given out of order
C9_Witness ==
    /\ pc = "done"
    /\ ranges = <<<<1, 2>>, <<0, 2>>, <<0, 1>>>>
    /\ Len(result) = 3

\* some (start, end) pair occurs at two indices of ranges
HasDuplicate == \E i, j \in 1..Len(ranges) : i < j /\ ranges[i] = ranges[j]

\* the first index that repeats an earlier range, and that earlier index
FirstRepeat ==
    Min({j \in 1..Len(ranges) : \E i \in 1..(j - 1) : ranges[i] = ranges[j]})
FirstOf(j) == Min({i \in 1..Len(ranges) : ranges[i] = ranges[j]})

\* C10: a run whose ranges hold the same (start, end) pair at two indices
\* never returns: if it gets as far as the first repeated range, that
\* extraction raises OutputAlreadyExists, the artifact of the earlier equal
\* range stays on disk as written, and the run has failed.
C10_DuplicateRangeFails ==
    HasDuplicate =>
        /\ pc # "done"
        /\ ~returned
        /\ Len(ffmpegLog) >= FirstRepeat =>
              /\ pc = "failed"
              /\ error = "OutputAlreadyExists"
              /\ failedIdx = FirstRepeat
              /\ PathOf(FirstRepeat) \in DOMAIN files
              /\ files[PathOf(FirstRepeat)] = Complete(FirstOf(FirstRepeat))

\* three ranges, the third repeating the first, failed at the third
C10_Witness ==
    /\ Len(ranges) = 3
    /\ ranges[1] = ranges[3]
    /\ ranges[1] # ranges[2]
    /\ failedIdx = 3
    /\ error = "OutputAlreadyExists"
    /\ files[PathOf(1)] = Complete(1)
    /\ PathOf(2) \in DOMAIN files

(***************************************************************************)
(* _available_heights on every format list of bounded length               *)
(***************************************************************************)
\* a JSON object with the given keys present
FormatObject(h, c, e) ==
    [k \in (IF h = <<>> THEN {} ELSE {"height"}) \cup
           (IF c = <<>> THEN {} ELSE {"vcodec"}) \cup
           (IF e = <<>> THEN {} ELSE {"ext"}) |->
        CASE k = "height" -> h[1]
          [] k = "vcodec" -> c[1]
          [] OTHER -> e[1]]

\* <<>> stands for a key that is absent (or null).  An object whose height
\* is absent or 0 is discarded at line 124 whatever its other keys, and so is
\* one whose codec is absent or "none": these come with one choice of the
\* remaining keys, the one that would classify best.
CodecExtValues ==
    { <<<<>>, <<"mp4">>>>, <<<<CodecNone>>, <<"mp4">>>>,
      <<<<CodecH264>>, <<"mp4">>>>, <<<<CodecH264>>, <<"webm">>>>,
      <<<<CodecAv1>>, <<"mp4">>>>, <<<<CodecAv1>>, <<"webm">>>> }

FormatUniverse ==
    {FormatObject(h, <<CodecH264>>, <<"mp4">>) : h \in {<<>>, <<0>>}} \cup
    {FormatObject(<<h>>, ce[1], ce[2]) : h \in {480, 720, 1080}, ce \in CodecExtValues}

InitHeights ==
    /\ formats \in SeqsUpTo(FormatUniverse, MaxFormats)
    /\ h264_mp4 = <<>>
    /\ all_heights = <<>>
    /\ pc = "heights"
    /\ ranges = <<>>
    /\ reencode = FALSE
    /\ output_format = "mp4"
    /\ quality_height = 0
    /\ depsOk = FALSE
    /\ files = NoFiles
    /\ error = ""
    /\ workspace = FALSE
    /\ workFiles = {}
    /\ run_stamp = 0
    /\ source = <<>>
    /\ idx = 0
    /\ outputs = <<>>
    /\ returned = FALSE
    /\ result = <<>>
    /\ downloadCalls = 0
    /\ ffmpegLog = <<>>
    /\ engineCalls = 0
    /\ failedIdx = 0
    /\ clockReads = 0
    /\ ParseEntry

\* lines 116-131 applied to the document's format list
Classify ==
    /\ pc = "heights"
    /\ LET hs == AvailableHeights(formats)
       IN  /\ h264_mp4' = hs[1]
           /\ all_heights' = hs[2]
    /\ pc' = "classified"
    /\ UNCHANGED <<formats, parseVars>>
    /\ UNCHANGED <<ranges, reencode, output_format, quality_height, depsOk,
                   error, workspace, workFiles, run_stamp, source, idx, outputs,
                   returned, result, files, downloadCalls, ffmpegLog,
                   engineCalls, failedIdx, clockReads>>

NextHeights == Classify

SpecHeights == InitHeights /\ [][NextHeights]_vars

\* the formats of the list that carry a usable video height
VideoFormats ==
    {f \in Range(formats) :
        /\ "height" \in DOMAIN f
        /\ f.height # 0
        /\ "vcodec" \in DOMAIN f
        /\ f.vcodec # <<"n", "o", "n", "e">>}

\* those that are H.264 in an mp4 container
FastFormats ==
    {f \in VideoFormats :
        /\ "ext" \in DOMAIN f
        /\ f.ext = "mp4"
        /\ Len(f.vcodec) >= 4
        /\ f.vcodec[1] = "a" /\ f.vcodec[2] = "v"
        /\ f.vcodec[3] = "c" /\ f.vcodec[4] = "1"}

IsAscending(s) == \A i \in 1..(Len(s) - 1) : s[i] < s[i + 1]

\* C7: a height is in anyCodecHeights exactly when some format of the list
\* has it as non-zero height together with a present video codec, and in
\* fastPathHeights exactly when such a format is also mp4 with a codec
\* starting with avc1; so fastPathHeights is a subset of anyCodecHeights,
\* and {480,720,1080} with only 720 H.264/mp4 gives {720} and {480,720,1080}.
C7_Classification ==
    pc = "classified" =>
        /\ Range(all_heights) = {f.height : f \in VideoFormats}
        /\ Range(h264_mp4) = {f.height : f \in FastFormats}
        /\ Range(h264_mp4) \subseteq Range(all_heights)
        /\ IsAscending(all_heights)
        /\ IsAscending(h264_mp4)
        /\ ( /\ {f.height : f \in VideoFormats} = {480, 720, 1080}
             /\ \A f \in FastFormats : f.height = 720
             /\ FastFormats # {} )
           => (h264_mp4 = <<720>> /\ all_heights = <<480, 720, 1080>>)

\* three formats of heights 1080, 720, 480, only the 720 one H.264 in mp4
C7_Witness ==
    /\ pc = "classified"
    /\ Len(formats) = 3
    /\ formats[1] = [height |-> 1080, vcodec |-> CodecAv1, ext |-> "mp4"]
    /\ formats[2] = [height |-> 720, vcodec |-> CodecH264, ext |-> "mp4"]
    /\ formats[3] = [height |-> 480, vcodec |-> CodecH264, ext |-> "webm"]
    /\ h264_mp4 = <<720>>
    /\ all_heights = <<480, 720, 1080>>

(***************************************************************************)
(* parse_time and parse_clip_ranges.  A str is a sequence of characters.   *)
(***************************************************************************)
Digits == {"0", "1"}

\* the characters of the texts tried: up to MaxTextLen of the first set, up
\* to MaxNoisyLen of the second
PlainChars == {"0", "1", "-", ","}
NoisyChars == PlainChars \cup {" ", ":"}

DigitValue(c) == IF c = "0" THEN 0 ELSE 1

\* str.strip()
RECURSIVE LStrip(_)
LStrip(s) == IF s # <<>> /\ Head(s) = " " THEN LStrip(Tail(s)) ELSE s
RECURSIVE RStrip(_)
RStrip(s) ==
    IF s # <<>> /\ s[Len(s)] = " " THEN RStrip(SubSeq(s, 1, Len(s) - 1)) ELSE s
Strip(s) == RStrip(LStrip(s))

\* position of the first c in s, 0 if there is none
FirstIndex(s, c) ==
    IF \E i \in 1..Len(s) : s[i] = c
    THEN Min({i \in 1..Len(s) : s[i] = c})
    ELSE 0

\* str.split(c)
RECURSIVE Split(_, _)
Split(s, c) ==
    LET i == FirstIndex(s, c)
    IN  IF i = 0 THEN <<s>>
        ELSE <<SubSeq(s, 1, i - 1)>> \o Split(SubSeq(s, i + 1, Len(s)), c)

\* value of a non-empty run of digits
RECURSIVE DigitsValue(_, _)
DigitsValue(s, acc) ==
    IF s = <<>> THEN acc ELSE DigitsValue(Tail(s), 10 * acc + DigitValue(Head(s)))

AllDigits(s) == s # <<>> /\ \A i \in 1..Len(s) : s[i] \in Digits

\* int(s): surrounding blanks, an optional sign, digits
PyInt(s) ==
    LET t == Strip(s)
        signed == t # <<>> /\ t[1] \in {"-", "+"}
        body == IF signed THEN Tail(t) ELSE t
    IN  IF AllDigits(body)
        THEN [ok |-> TRUE,
              value |-> IF signed /\ t[1] = "-" THEN 0 - DigitsValue(body, 0)
                                               ELSE DigitsValue(body, 0)]
        ELSE [ok |-> FALSE, value |-> 0]

\* lines 16-26
ParseTime(value) ==
    LET v == Strip(value)
        n == PyInt(v)
    IN  IF ":" \in Range(v) THEN [kind |-> "InvalidTimestamp", value |-> 0]
        ELSE IF ~n.ok THEN [kind |-> "InvalidTimestamp", value |-> 0]
        ELSE IF n.value < 0 THEN [kind |-> "NegativeTimestamp", value |-> 0]
        ELSE [kind |-> "ok", value |-> n.value]

\* variant: a clip of no duration is let through
ValidateRangeLax(start, end) == IF end < start THEN "NonPositiveDuration" ELSE "ok"

\* lines 48-50
ValidateRange(start, end) == IF end <= start THEN "NonPositiveDuration" ELSE "ok"

\* lines 36-44: one item of the loop; the exception raised or the pair
ParseItem(item) ==
    LET i == FirstIndex(item, "-")
        start == ParseTime(SubSeq(item, 1, i - 1))
        end == ParseTime(SubSeq(item, i + 1, Len(item)))
    IN  IF i = 0 THEN [kind |-> "MalformedRange", pair |-> <<0, 0>>]
        ELSE IF start.kind # "ok" THEN [kind |-> start.kind, pair |-> <<0, 0>>]
        ELSE IF end.kind # "ok" THEN [kind |-> end.kind, pair |-> <<0, 0>>]
        ELSE [kind |-> ValidateRange(start.value, end.value),
              pair |-> <<start.value, end.value>>]

\* lines 35-45: the loop, stopping at the first item that raises
RECURSIVE ParseItems(_, _)
ParseItems(items, acc) ==
    IF items = <<>> THEN [kind |-> "ok", ranges |-> acc]
    ELSE LET r == ParseItem(Head(items))
         IN  IF r.kind # "ok" THEN [kind |-> r.kind, ranges |-> <<>>]
             ELSE ParseItems(Tail(items), Append(acc, r.pair))

\* line 30: [item.strip() for item in ranges.split(",") if item.strip()]
RECURSIVE StripKeep(_)
StripKeep(segs) ==
    IF segs = <<>> THEN <<>>
    ELSE LET t == Strip(Head(segs))
         IN  (IF t # <<>> THEN <<t>> ELSE <<>>) \o StripKeep(Tail(segs))

\* lines 29-45
ParseClipRanges(ranges_text) ==
    LET items == StripKeep(Split(ranges_text, ","))
    IN  IF items = <<>> THEN [kind |-> "NoRangesProvided", ranges |-> <<>>]
        ELSE ParseItems(items, <<>>)

InitParse ==
    /\ \/ \E n \in 0..MaxTextLen : text \in [1..n -> PlainChars]
       \/ \E n \in 0..MaxNoisyLen : text \in [1..n -> NoisyChars]
    /\ parsed = [kind |-> "pending", ranges |-> <<>>]
    /\ pc = "parse"
    /\ ranges = <<>>
    /\ reencode = FALSE
    /\ output_format = "mp4"
    /\ quality_height = 0
    /\ depsOk = FALSE
    /\ files = NoFiles
    /\ error = ""
    /\ workspace = FALSE
    /\ workFiles = {}
    /\ run_stamp = 0
    /\ source = <<>>
    /\ idx = 0
    /\ outputs = <<>>
    /\ returned = FALSE
    /\ result = <<>>
    /\ downloadCalls = 0
    /\ ffmpegLog = <<>>
    /\ engineCalls = 0
    /\ failedIdx = 0
    /\ clockReads = 0
    /\ HeightsEntry

\* parse_clip_ranges(text)
Parse ==
    /\ pc = "parse"
    /\ parsed' = ParseClipRanges(text)
    /\ pc' = "parsed"
    /\ UNCHANGED <<text, heightVars>>
    /\ UNCHANGED <<ranges, reencode, output_format, quality_height, depsOk,
                   error, workspace, workFiles, run_stamp, source, idx, outputs,
                   returned, result, files, downloadCalls, ffmpegLog,
                   engineCalls, failedIdx, clockReads>>

NextParse == Parse

SpecParse == InitParse /\ [][NextParse]_vars

(***************************************************************************)
(* Properties of parse_clip_ranges, stated on the text itself              *)
(***************************************************************************)
\* the cuts of the text: before it, at each comma, after it
Cuts == SortedSeq({0, Len(text) + 1} \cup {i \in 1..Len(text) : text[i] = ","})

\* the k-th comma-separated segment
Segment(k) == SubSeq(text, Cuts[k] + 1, Cuts[k + 1] - 1)

IsBlank(s) == \A i \in 1..Len(s) : s[i] = " "

\* the segments that are not empty once trimmed, in the order of the text
Segments ==
    LET all == [k \in 1..(Len(Cuts) - 1) |-> Segment(k)]
        NotBlank(s) == ~IsBlank(s)
    IN  SelectSeq(all, NotBlank)

\* s is a base-10 non-negative integer, possibly surrounded by blanks
IsNatText(s) ==
    \E l, r \in 1..Len(s) :
        /\ l <= r
        /\ \A i \in 1..Len(s) :
              IF i \in l..r THEN s[i] \in {"0", "1"} ELSE s[i] = " "

\* its value: the digits weighted by the powers of ten
RECURSIVE Pow10(_)
Pow10(n) == IF n = 0 THEN 1 ELSE 10 * Pow10(n - 1)
RECURSIVE SumOver(_, _)
SumOver(S, s) ==
    IF S = {} THEN 0
    ELSE LET i == Min(S)
             later == Cardinality({j \in S : j > i})
         IN  (IF s[i] = "1" THEN Pow10(later) ELSE 0) + SumOver(S \ {i}, s)
NatOf(s) == SumOver({i \in 1..Len(s) : s[i] # " "}, s)

\* the position of the separator of a segment of the form a-b
DashOf(s) == CHOOSE i \in 1..Len(s) : s[i] = "-"

IsRangeText(s) ==
    \E i \in 1..Len(s) :
        /\ s[i] = "-"
        /\ IsNatText(SubSeq(s, 1, i - 1))
        /\ IsNatText(SubSeq(s, i + 1, Len(s)))

PairOf(s) ==
    <<NatOf(SubSeq(s, 1, DashOf(s) - 1)), NatOf(SubSeq(s, DashOf(s) + 1, Len(s)))>>

\* every non-empty segment has the form a-b
WellFormedSegs(segs) == \A k \in 1..Len(segs) : IsRangeText(segs[k])

\* what the claim expects of a text whose non-empty segments are segs
ExpectedOf(segs) ==
    LET pairs == [k \in 1..Len(segs) |-> PairOf(segs[k])]
    IN  IF \A k \in 1..Len(segs) : pairs[k][1] < pairs[k][2]
        THEN parsed.kind = "ok" /\ parsed.ranges = pairs
        ELSE parsed.kind = "NonPositiveDuration"

\* C6 as stated: for every text whose non-empty segments all have the form
\* a-b, the parser returns the pairs in input order when every segment has
\* a < b and fails with NonPositiveDuration when some segment has a >= b.
C6_AsStated ==
    pc = "parsed" =>
        LET segs == Segments
        IN  WellFormedSegs(segs) => ExpectedOf(segs)

\* C6 amended: the same for every such text that has at least one non-empty
\* segment (with none, the parser fails with NoRangesProvided).
C6_ParsesRanges ==
    pc = "parsed" =>
        LET segs == Segments
        IN  IF segs = <<>> THEN parsed.kind = "NoRangesProvided"
            ELSE WellFormedSegs(segs) => ExpectedOf(segs)

\* two overlapping ranges given in descending order come back as given
C6_Witness ==
    /\ pc = "parsed"
    /\ text = <<"1", "-", "1", "1", ",", "0", "-", "1">>
    /\ parsed = [kind |-> "ok", ranges |-> <<<<1, 11>>, <<0, 1>>>>]

====
